---- MODULE Spec2Model ----
(***************************************************************************)
(* Model of the pdf-scanner document processing pipeline:                  *)
(*   - the ingestion route  src/src/app/api/documents/route.ts  (POST)     *)
(*   - the polling worker   src/worker/index.js                            *)
(*     (pollForPendingDocuments, processPDF, the setInterval timer)        *)
(*   - the pdf_documents table of src/unnamed/part_000                     *)
(* Texts are sequences of one-character strings.  An optional (nullable)   *)
(* value is NULL or Some(v).                                               *)
(***************************************************************************)
EXTENDS Integers, Sequences, FiniteSets, Bags, TLC

VARIABLES
  docs,      \* the pdf_documents table: id -> row
  blobs,     \* the pdf-uploads bucket: path -> stored file
  tmp,       \* ids d for which TEMP_DIR/<d>.pdf exists on the worker's disk
  polls,     \* the worker's pollForPendingDocuments invocations in progress
  timerOn,   \* TRUE once setInterval(pollForPendingDocuments) is registered
  resp,      \* the response to the latest POST request, NULL before the first
  nextId,    \* the next fresh document id (uuidv4)
  termWrites, \* history: id -> number of writes of a terminal status by the worker
  meta,      \* the extractMetadata calls of the extractor's own specifications:
             \* the text at hand, the call made on it, and a call kept from before
  dl         \* the answer to the latest download request, NULL before the first

vars == <<docs, blobs, tmp, polls, timerOn, resp, nextId, termWrites, meta, dl>>

----------------------------------------------------------------------------
\* Bounds of the model.
MaxUploads == 2
MaxPolls == 2

\* Program constants.
BatchLimit == 5
PageOcrThreshold == 50
DocOcrFactor == 100

NULL == <<>>
Some(v) == <<v>>

----------------------------------------------------------------------------
\* Text helpers.

Rep(c, n) == [k \in 1..n |-> c]

IsSpace(c) == c \in {" ", "\n", "\t"}

\* the least element of a non-empty set of integers
Least(S) == CHOOSE x \in S : \A y \in S : x <= y

\* the greatest element of a non-empty set of integers
Greatest(S) == CHOOSE x \in S : \A y \in S : x >= y

\* String.prototype.trim: from the first to the last non-space character
Trim(s) ==
  LET solid == {k \in 1..Len(s) : ~IsSpace(s[k])}
  IN  IF solid = {} THEN <<>> ELSE SubSeq(s, Least(solid), Greatest(solid))

\* Array.prototype.join(sep) over a sequence of texts
RECURSIVE Join(_, _)
Join(parts, sep) ==
  IF parts = <<>> THEN <<>>
  ELSE IF Len(parts) = 1 THEN parts[1]
  ELSE parts[1] \o sep \o Join(Tail(parts), sep)

Digit(n) == <<"0", "1", "2", "3", "4", "5", "6", "7", "8", "9">>[n + 1]

\* the decimal digits of a non-negative integer (template-literal ${n})
RECURSIVE NumToText(_)
NumToText(n) == IF n < 10 THEN <<Digit(n)>> ELSE NumToText(n \div 10) \o <<Digit(n % 10)>>

----------------------------------------------------------------------------
\* Uploaded files.  A PDF is its page table: per page the text items of its
\* text layer (or a page that cannot be read), and the text the OCR primitive
\* returns when it is run over the file's bytes and does not throw.

Page(items) == [ok |-> TRUE, items |-> items]
BrokenPage == [ok |-> FALSE, items |-> <<>>]

\* text-native, 2 pages of exactly 100 characters each (200 = 100 x 2)
TextPdf ==
  [name |-> "text.pdf", mime |-> "application/pdf", valid |-> TRUE,
   pages |-> << Page(<< Rep("a", 49), Rep("b", 50) >>),
                Page(<< <<" ">>, Rep("c", 100), <<>> >>) >>,
   ocr |-> <<"x">>]

\* scanned, 1 page with a 4-character text layer; OCR reads 7 characters
ScanPdf ==
  [name |-> "scan.pdf", mime |-> "application/pdf", valid |-> TRUE,
   pages |-> << Page(<< <<"s", "c">>, <<"n">> >>) >>,
   ocr |-> <<"J", "o", "b", " ", "#", "7", "\n">>]

\* scanned, 2 pages (3 + 0 characters); OCR reads exactly 3 characters
DimPdf ==
  [name |-> "dim.pdf", mime |-> "application/pdf", valid |-> TRUE,
   pages |-> << Page(<< <<"d", "i", "m">> >>), Page(<<>>) >>,
   ocr |-> <<"d", "1", "m">>]

\* scanned, 1 page with a 5-character text layer; OCR reads 1 character
FaintPdf ==
  [name |-> "faint.pdf", mime |-> "application/pdf", valid |-> TRUE,
   pages |-> << Page(<< <<"f", "a", "i", "n", "t">> >>) >>,
   ocr |-> <<"f">>]

\* not a PDF: getDocument rejects it
BadPdf ==
  [name |-> "bad.pdf", mime |-> "application/pdf", valid |-> FALSE,
   pages |-> <<>>, ocr |-> <<>>]

\* second page cannot be read
BadPagePdf ==
  [name |-> "badpage.pdf", mime |-> "application/pdf", valid |-> TRUE,
   pages |-> << Page(<< Rep("p", 100) >>), BrokenPage >>,
   ocr |-> <<>>]

PngImage ==
  [name |-> "sheet.png", mime |-> "image/png", valid |-> TRUE, pages |-> <<>>,
   ocr |-> <<"J", "o", "b", " ", "#", "5">>]

TextFile ==
  [name |-> "notes.txt", mime |-> "text/plain", valid |-> TRUE, pages |-> <<>>,
   ocr |-> <<>>]

AllPdfFiles == {TextPdf, ScanPdf, DimPdf, FaintPdf, BadPdf, BadPagePdf}
PdfFiles == {ScanPdf, BadPagePdf}
ImageFiles == {PngImage}
OtherFiles == {TextFile}

\* Messages of the errors the collaborators raise.
BlobErrMsg == "Object not found"
WriteErrMsg == "ENOSPC: no space left on device"
LoadErrMsg == "Invalid PDF structure."
PageErrMsg == "Invalid page request."

----------------------------------------------------------------------------
\* The pdf_documents table.

\* a row as the table's column defaults make it
NewRow(filename, uploadedAt) ==
  [filename |-> filename, job_number |-> NULL, formula_id |-> NULL,
   product_name |-> NULL, extracted_text |-> NULL, file_path |-> NULL,
   page_count |-> 0, processing_status |-> "pending", processing_error |-> NULL,
   uploaded_at |-> uploadedAt, processed_at |-> NULL]

\* uploaded_at DEFAULT NOW(): later than that of every row inserted before
Now(store) == Cardinality(DOMAIN store) + 1

\* new Date() for processed_at: a time later than the row's earlier one
Later(t) == IF t = NULL THEN Some(1) ELSE Some(t[1] + 1)

\* .update(fields).eq('id', id): only the named columns of that row change
Update(store, id, fields) ==
  [d \in DOMAIN store |->
     IF d = id
     THEN [c \in DOMAIN store[d] |->
             IF c \in DOMAIN fields THEN fields[c] ELSE store[d][c]]
     ELSE store[d]]

\* uploads/${id}/${filename}
FilePath(id, filename) == <<id, filename>>

----------------------------------------------------------------------------
\* extractMetadata: the three regular expressions, matched as the regex
\* engine matches them (leftmost start, greedy and lazy quantifiers with
\* backtracking, case-insensitive).

Lower(c) ==
  CASE c = "A" -> "a" [] c = "B" -> "b" [] c = "C" -> "c" [] c = "D" -> "d"
    [] c = "E" -> "e" [] c = "F" -> "f" [] c = "G" -> "g" [] c = "H" -> "h"
    [] c = "I" -> "i" [] c = "J" -> "j" [] c = "K" -> "k" [] c = "L" -> "l"
    [] c = "M" -> "m" [] c = "N" -> "n" [] c = "O" -> "o" [] c = "P" -> "p"
    [] c = "Q" -> "q" [] c = "R" -> "r" [] c = "S" -> "s" [] c = "T" -> "t"
    [] c = "U" -> "u" [] c = "V" -> "v" [] c = "W" -> "w" [] c = "X" -> "x"
    [] c = "Y" -> "y" [] c = "Z" -> "z"
    [] OTHER -> c

IsDigit(c) == c \in {"0", "1", "2", "3", "4", "5", "6", "7", "8", "9"}

IsLetter(c) ==
  Lower(c) \in {"a", "b", "c", "d", "e", "f", "g", "h", "i", "j", "k", "l", "m",
                "n", "o", "p", "q", "r", "s", "t", "u", "v", "w", "x", "y", "z"}

\* [:\s]
IsSep(c) == c = ":" \/ IsSpace(c)

\* [A-Za-z0-9%\s]
IsNameChar(c) == IsLetter(c) \/ IsDigit(c) \/ c = "%" \/ IsSpace(c)

\* the literal word w matches text at position p, ignoring case (w in lower case)
LitAt(text, p, w) ==
  /\ p + Len(w) - 1 <= Len(text)
  /\ \A k \in 1..Len(w) : Lower(text[p + k - 1]) = w[k]

\* the character classes \s, [:\s] and \d
InClass(c, cls) ==
  CASE cls = "space" -> IsSpace(c)
    [] cls = "sep" -> IsSep(c)
    [] cls = "digit" -> IsDigit(c)
    [] cls = "name" -> IsNameChar(c)

\* the position after the longest run from p of characters of class cls
RunEnd(text, p, cls) ==
  LET stops == {q \in p..Len(text) : ~InClass(text[q], cls)}
  IN  IF stops = {} THEN Len(text) + 1 ELSE Least(stops)

\* a match of  word \s* mark [:\s]* (\d+)  starting at p: its digits, or NULL
LabelledNumberAt(text, p, word, mark) ==
  IF ~LitAt(text, p, word) THEN NULL
  ELSE LET q1 == RunEnd(text, p + Len(word), "space")
       IN  IF ~LitAt(text, q1, mark) THEN NULL
           ELSE LET q2 == RunEnd(text, q1 + Len(mark), "sep")
                    q3 == RunEnd(text, q2, "digit")
                IN  IF q3 > q2 THEN Some(SubSeq(text, q2, q3 - 1)) ELSE NULL

\* the rightmost match instead of the leftmost
LastLabelledNumber(text, word, mark) ==
  LET starts == {p \in 1..Len(text) : LabelledNumberAt(text, p, word, mark) # NULL}
  IN  IF starts = {} THEN NULL
      ELSE LabelledNumberAt(text, Greatest(starts), word, mark)

\* the leftmost match
FirstLabelledNumber(text, word, mark) ==
  LET starts == {p \in 1..Len(text) : LabelledNumberAt(text, p, word, mark) # NULL}
  IN  IF starts = {} THEN NULL
      ELSE LabelledNumberAt(text, Least(starts), word, mark)

\* (?:\n|Gallons|Pounds) at position p
NameEndAt(text, p) ==
  \/ LitAt(text, p, <<"\n">>)
  \/ LitAt(text, p, <<"g", "a", "l", "l", "o", "n", "s">>)
  \/ LitAt(text, p, <<"p", "o", "u", "n", "d", "s">>)

\* a capture that is greedy instead of lazy: the longest run
GreedyName(text, c) ==
  LET ends == {e \in c..(RunEnd(text, c, "name") - 1) : NameEndAt(text, e + 1)}
  IN  IF ends = {} THEN NULL ELSE Some(SubSeq(text, c, Greatest(ends)))

\* ([A-Za-z0-9%\s]+?)(?:\n|Gallons|Pounds) with the capture starting at c:
\* the shortest non-empty run of name characters that a terminator follows
LazyName(text, c) ==
  LET ends == {e \in c..(RunEnd(text, c, "name") - 1) : NameEndAt(text, e + 1)}
  IN  IF ends = {} THEN NULL ELSE Some(SubSeq(text, c, Least(ends)))

\* [:\s]+ from position lo - 1, giving back characters from its longest run:
\* the capture starts at the greatest position in lo..hi that yields a match
GreedySep(text, lo, hi) ==
  LET caps == {c \in lo..hi : LazyName(text, c) # NULL}
  IN  IF caps = {} THEN NULL ELSE LazyName(text, Greatest(caps))

\* a match of  Name[:\s]+([A-Za-z0-9%\s]+?)(?:\n|Gallons|Pounds)  starting at p
NameAt(text, p) ==
  IF ~LitAt(text, p, <<"n", "a", "m", "e">>) THEN NULL
  ELSE GreedySep(text, p + 5, RunEnd(text, p + 4, "sep"))

\* the leftmost match
FirstName(text) ==
  LET starts == {p \in 1..Len(text) : NameAt(text, p) # NULL}
  IN  IF starts = {} THEN NULL ELSE NameAt(text, Least(starts))

extractMetadata(text) ==
  LET nameMatch == FirstName(text)
  IN  [jobNumber |-> FirstLabelledNumber(text, <<"j", "o", "b">>, <<"#">>),
       formulaId |-> FirstLabelledNumber(text,
                        <<"f", "o", "r", "m", "u", "l", "a">>, <<"i", "d">>),
       productName |-> IF nameMatch = NULL THEN NULL ELSE Some(Trim(nameMatch[1]))]

\* a route copy that leaves the captured name untrimmed
routeExtractMetadataUntrimmed(text) ==
  LET nameMatch == FirstName(text)
  IN  [jobNumber |-> FirstLabelledNumber(text, <<"j", "o", "b">>, <<"#">>),
       formulaId |-> FirstLabelledNumber(text,
                        <<"f", "o", "r", "m", "u", "l", "a">>, <<"i", "d">>),
       productName |-> nameMatch]

\* route.ts, lines 7-38: the ingestion route's own copy of the function
routeExtractMetadata(text) ==
  LET nameMatch == FirstName(text)
  IN  [jobNumber |-> FirstLabelledNumber(text, <<"j", "o", "b">>, <<"#">>),
       formulaId |-> FirstLabelledNumber(text,
                        <<"f", "o", "r", "m", "u", "l", "a">>, <<"i", "d">>),
       productName |-> IF nameMatch = NULL THEN NULL ELSE Some(Trim(nameMatch[1]))]

----------------------------------------------------------------------------
\* The extractor on its own: a text is put together piece by piece, one of
\* the two copies is called on it, and a call can be kept for comparison
\* with later ones.  Each call evaluates its regular-expression literals
\* anew and String.prototype.match starts at the beginning of the text, so
\* a call reads nothing but its argument.

MaxPieces == 3

\* the pieces the texts are put together from
Pieces ==
  {<<"J", "o", "b", " ", "#", "1", " ">>,
   <<"j", "o", "b", "#", ":", "2", "7">>,
   <<"J", "o", "b">>,
   <<"#">>,
   <<"5">>,
   <<"F", "o", "r", "m", "u", "l", "a", " ", "I", "D", ":", " ", "3">>,
   <<"f", "o", "r", "m", "u", "l", "a", "i", "d", " ", "4", "0", " ">>,
   <<"N", "a", "m", "e", ":", " ">>,
   <<"N", "a", "m", "e">>,
   <<"A", "b", " ", "9", "%", "\n">>,
   <<"x">>,
   <<"\n">>,
   <<"G", "a", "l", "l", "o", "n", "s">>,
   <<"p", "o", "u", "n", "d", "s">>,
   <<"-">>,
   <<" ">>,
   <<":">>}

\* the pieces of the texts that are called on repeatedly
FewPieces ==
  {<<"J", "o", "b", " ", "#", "1", " ">>,
   <<"N", "a", "m", "e", ":", " ">>,
   <<"A", "b", " ", "9", "%", "\n">>,
   <<"\n">>}

\* no text, no call (since: the calls made after the kept one, counted up to 2)
NoCalls == [input |-> <<>>, pieces |-> 0, out |-> NULL, kept |-> NULL, since |-> 0]

\* one more piece of text arrives
Feed(piece, maxPieces) ==
  /\ meta.out = NULL
  /\ meta.pieces < maxPieces
  /\ meta' = [meta EXCEPT !.input = @ \o piece, !.pieces = @ + 1]
  /\ UNCHANGED <<docs, blobs, tmp, polls, timerOn, resp, nextId, termWrites, dl>>

\* the worker's call, index.js line 144: extractMetadata(combinedText)
CallWorkerCopy ==
  /\ meta.out = NULL
  /\ meta' = [meta EXCEPT !.out = Some([copy |-> "worker", text |-> meta.input,
                                        metadata |-> extractMetadata(meta.input)]),
                           !.since = IF @ < 2 THEN @ + 1 ELSE @]
  /\ UNCHANGED <<docs, blobs, tmp, polls, timerOn, resp, nextId, termWrites, dl>>

\* the route's call, route.ts line 177: extractMetadata(extractedText)
CallRouteCopy ==
  /\ meta.out = NULL
  /\ meta' = [meta EXCEPT !.out = Some([copy |-> "route", text |-> meta.input,
                                        metadata |-> routeExtractMetadata(meta.input)]),
                           !.since = IF @ < 2 THEN @ + 1 ELSE @]
  /\ UNCHANGED <<docs, blobs, tmp, polls, timerOn, resp, nextId, termWrites, dl>>

\* the call just made is kept, and the next text starts
KeepCall ==
  /\ meta.out # NULL
  /\ meta' = [NoCalls EXCEPT !.kept = meta.out]
  /\ UNCHANGED <<docs, blobs, tmp, polls, timerOn, resp, nextId, termWrites, dl>>

\* the call just made is over, and the next text starts
NextText ==
  /\ meta.out # NULL
  /\ meta' = [NoCalls EXCEPT !.kept = meta.kept, !.since = meta.since]
  /\ UNCHANGED <<docs, blobs, tmp, polls, timerOn, resp, nextId, termWrites, dl>>

\* no documents, no worker: only the extractor runs
InitMeta ==
  /\ docs = <<>>
  /\ blobs = <<>>
  /\ tmp = {}
  /\ polls = EmptyBag
  /\ timerOn = FALSE
  /\ resp = NULL
  /\ nextId = 1
  /\ termWrites = <<>>
  /\ meta = NoCalls
  /\ dl = NULL

\* single calls over all texts of up to MaxPieces pieces
NextMeta ==
  \/ \E piece \in Pieces : Feed(piece, MaxPieces)
  \/ CallWorkerCopy
  \/ CallRouteCopy
  \/ NextText

SpecMeta == InitMeta /\ [][NextMeta]_vars

\* sequences of calls over the texts of up to MaxPieces pieces, put together from the few
NextCalls ==
  \/ \E piece \in FewPieces : Feed(piece, MaxPieces)
  \/ CallWorkerCopy
  \/ CallRouteCopy
  \/ KeepCall
  \/ NextText

SpecCalls == InitMeta /\ [][NextCalls]_vars

----------------------------------------------------------------------------
\* The worker's frames: one per pollForPendingDocuments invocation that has
\* not returned.  Invocations have no identity of their own, so the frames
\* are kept as a bag.

NewFrame ==
  [pc |-> "query", batch |-> <<>>, idx |-> 0, pdfData |-> NULL, pageCount |-> 0,
   pageTexts |-> <<>>, totalTextLength |-> 0, pageNum |-> 0, error |-> NULL,
   ocrCalls |-> 0, ocrThrew |-> FALSE, worker |-> 1]

\* the row handed to processPDF by frame f
CurDoc(f) == f.batch[f.idx]

Frames == BagToSet(polls)

\* the frames that are inside a processPDF call
InProcessPDF == {f \in Frames : f.pc # "query"}

----------------------------------------------------------------------------
\* The ingestion route (POST).  The module imports getSupabase only (line 2)
\* and calls getSupabase() for the storage upload, but both inserts are
\* written  await supabase.from('pdf_documents')  (lines 134 and 180) and
\* the module declares no identifier supabase: evaluating it throws a
\* ReferenceError, which the outer catch answers with status 500.

PutErrMsg == "Bucket not found"
ImageOcrErrMsg == "Error attempting to read image."
RefErrMsg == "supabase is not defined"

\* NextResponse.json({ error }, { status })
Respond(status, error) == resp' = Some([status |-> status, error |-> error])

\* catch (error): 500 with the thrown error's message
RespondThrown(message) == Respond(500, "Failed to process document: " \o message)

\* no file in the form data: 400
PostNoFile ==
  /\ Respond(400, "No file provided")
  /\ UNCHANGED <<docs, blobs, tmp, polls, timerOn, nextId, termWrites, meta, dl>>

\* the row the PDF branch hands to insert
PendingRow(r, store) ==
  [NewRow(r.filename, Now(store)) EXCEPT
     !.file_path = Some(r.filePath),
     !.processing_status = "pending",
     !.extracted_text = NULL]

\* a PDF branch that inserts the pending row before it puts the bytes, and
\* whose put then fails
PostPdfInsertsFirst(f, maxIds) ==
  /\ nextId <= maxIds
  /\ docs' = docs @@ (nextId :> PendingRow([filename |-> f.name,
                                            filePath |-> FilePath(nextId, f.name)], docs))
  /\ termWrites' = termWrites @@ (nextId :> 0)
  /\ nextId' = nextId + 1
  /\ Respond(500, "Failed to upload file: " \o PutErrMsg)
  /\ UNCHANGED <<blobs, tmp, polls, timerOn, meta, dl>>

\* PDF branch: the storage upload under uploads/<id>/<filename>; an
\* uploadError answers 500; otherwise the bytes are stored and the insert
\* statement throws on its first identifier
PostPdf(f, maxIds) ==
  /\ nextId <= maxIds
  /\ \/ /\ Respond(500, "Failed to upload file: " \o PutErrMsg)
        /\ UNCHANGED <<blobs, nextId>>
     \/ /\ blobs' = blobs @@ (FilePath(nextId, f.name) :> f)
        /\ nextId' = nextId + 1
        /\ RespondThrown(RefErrMsg)
  /\ UNCHANGED <<docs, tmp, polls, timerOn, termWrites, meta, dl>>

\* an image branch that stores a row before it runs OCR
PostImageInsertsFirst(f) ==
  /\ docs' = docs @@ (nextId :> NewRow(f.name, Now(docs)))
  /\ termWrites' = termWrites @@ (nextId :> 0)
  /\ RespondThrown(ImageOcrErrMsg)
  /\ UNCHANGED <<blobs, tmp, polls, timerOn, nextId, meta, dl>>

\* image branch: OCR inside the request; a throwing OCR primitive answers
\* 500; otherwise the insert statement throws on its first identifier
PostImage(f) ==
  /\ \/ RespondThrown(ImageOcrErrMsg)
     \/ RespondThrown(RefErrMsg)
  /\ UNCHANGED <<docs, blobs, tmp, polls, timerOn, nextId, termWrites, meta, dl>>

\* any other content type: 400, nothing else
PostUnsupported(f) ==
  /\ f.mime # "application/pdf"
  /\ Respond(400, "Unsupported file type. Please upload PDF or images (JPG, PNG).")
  /\ UNCHANGED <<docs, blobs, tmp, polls, timerOn, nextId, termWrites, meta, dl>>

----------------------------------------------------------------------------
\* The worker: pollForPendingDocuments.

Min(a, b) == IF a < b THEN a ELSE b

\* the rows of S by ascending uploaded_at
RECURSIVE OrderAsc(_, _)
OrderAsc(store, S) ==
  IF S = {} THEN <<>>
  ELSE LET first == CHOOSE d \in S :
                      \A e \in S : store[d].uploaded_at <= store[e].uploaded_at
       IN  <<first>> \o OrderAsc(store, S \ {first})

\* a filter on the documents already claimed
ClaimedStatus == "processing"

\* the status the poll filters on
QueryStatus == "pending"

\* a query that also takes up the documents left in processing
PendingQueryAlsoProcessing(store) ==
  LET hits == {d \in DOMAIN store :
                 store[d].processing_status \in {QueryStatus, "processing"}}
      ordered == OrderAsc(store, hits)
  IN  [k \in 1..Min(BatchLimit, Len(ordered)) |->
         [id |-> ordered[k], filename |-> store[ordered[k]].filename,
          file_path |-> store[ordered[k]].file_path]]

\* the same query with the order reversed: newest first
PendingQueryNewestFirst(store) ==
  LET hits == {d \in DOMAIN store : store[d].processing_status = QueryStatus}
      ordered == OrderAsc(store, hits)
      n == Len(ordered)
  IN  [k \in 1..Min(BatchLimit, n) |->
         [id |-> ordered[n + 1 - k], filename |-> store[ordered[n + 1 - k]].filename,
          file_path |-> store[ordered[n + 1 - k]].file_path]]

\* .eq('processing_status', 'pending').order('uploaded_at', asc).limit(5)
PendingQuery(store) ==
  LET hits == {d \in DOMAIN store : store[d].processing_status = QueryStatus}
      ordered == OrderAsc(store, hits)
  IN  [k \in 1..Min(BatchLimit, Len(ordered)) |->
         [id |-> ordered[k], filename |-> store[ordered[k]].filename,
          file_path |-> store[ordered[k]].file_path]]

\* frame f moves on as frame g
Step(f, g) == polls' = (polls (-) SetToBag({f})) (+) SetToBag({g})

\* the frame calls processPDF on row k of its batch
CallProcessPDF(batch, k) ==
  [NewFrame EXCEPT !.pc = "claim", !.batch = batch, !.idx = k]

\* the same call, made by frame f: it stays a frame of f's worker process
CallFrom(f, batch, k) == [CallProcessPDF(batch, k) EXCEPT !.worker = f.worker]

\* a return that takes the worker down with it: no timer afterwards
ReturnFromPollStopsWorker(f) ==
  /\ polls' = polls (-) SetToBag({f})
  /\ timerOn' = FALSE

\* pollForPendingDocuments returns; the first return is followed by setInterval
ReturnFromPoll(f) ==
  /\ polls' = polls (-) SetToBag({f})
  /\ timerOn' = TRUE

\* processPDF returns into the batch loop
ReturnFromProcessPDF(f) ==
  IF f.idx < Len(f.batch)
  THEN /\ Step(f, CallFrom(f, f.batch, f.idx + 1))
       /\ UNCHANGED timerOn
  ELSE ReturnFromPoll(f)

\* the select of the pending rows and what follows it up to the next await
\* (faulty: the store may answer the select with an error)
PollQuery(f, faulty) ==
  /\ f.pc = "query"
  /\ \/ \* error: logged, return
        /\ faulty
        /\ ReturnFromPoll(f)
     \/ LET pendingDocs == PendingQuery(docs)
        IN  IF Len(pendingDocs) > 0
            THEN /\ Step(f, CallFrom(f, pendingDocs, 1))
                 /\ UNCHANGED timerOn
            ELSE ReturnFromPoll(f)
  /\ UNCHANGED <<docs, blobs, tmp, resp, nextId, termWrites, meta, dl>>

\* the interval timer fires: a new pollForPendingDocuments invocation starts,
\* whether or not earlier ones have returned
Tick(maxPolls) ==
  /\ timerOn
  /\ BagCardinality(polls) < maxPolls
  /\ polls' = polls (+) SetToBag({NewFrame})
  /\ UNCHANGED <<docs, blobs, tmp, timerOn, resp, nextId, termWrites, meta, dl>>

----------------------------------------------------------------------------
\* The worker: processPDF, one action per awaited step.

\* textContent.items.map(item => item.str || '').join(' ').trim()
PageText(page) == Trim(Join(page.items, <<" ">>))

\* `--- Page ${p.pageNum} ---\n${p.text}`
PageSection(p) ==
  <<"-", "-", "-", " ", "P", "a", "g", "e", " ">> \o NumToText(p.pageNum)
    \o <<" ", "-", "-", "-", "\n">> \o p.text

\* pageTexts.map(...).join('\n\n')
CombinedText(pageTexts) ==
  Join([k \in 1..Len(pageTexts) |-> PageSection(pageTexts[k])], <<"\n", "\n">>)

\* the text of the per-page direct extraction of a PDF, page-marked
DirectText(pdf) ==
  Join([k \in 1..Len(pdf.pages) |->
          PageSection([pageNum |-> k, text |-> PageText(pdf.pages[k])])],
       <<"\n", "\n">>)

\* the text of a PDF whose OCR result replaced its page texts
OcrText(pdf) ==
  CombinedText(<< [pageNum |-> 1, text |-> pdf.ocr, needsOCR |-> FALSE] >>)

\* the texts processPDF can assemble from the PDFs above
AssembledTexts ==
  LET readable == {pdf \in AllPdfFiles :
                     pdf.valid /\ \A k \in 1..Len(pdf.pages) : pdf.pages[k].ok}
  IN  {DirectText(pdf) : pdf \in readable} \cup {OcrText(pdf) : pdf \in readable}

\* extractMetadata over those texts, computed once
MetadataOf == [text \in AssembledTexts |-> extractMetadata(text)]

\* control passes to the catch block with the thrown error's message
Throw(f, message) == Step(f, [f EXCEPT !.pc = "failed", !.error = Some(message)])

\* a claim step that is a compare-and-set on the status: a row that is not
\* pending is left alone and the call returns
MarkProcessingIfPending(f) ==
  /\ f.pc = "claim"
  /\ IF docs[CurDoc(f).id].processing_status = "pending"
     THEN /\ docs' = Update(docs, CurDoc(f).id, [processing_status |-> "processing"])
          /\ Step(f, [f EXCEPT !.pc = "download"])
          /\ UNCHANGED timerOn
     ELSE /\ ReturnFromProcessPDF(f)
          /\ UNCHANGED docs
  /\ UNCHANGED <<blobs, tmp, resp, nextId, termWrites, meta, dl>>

\* a claim step that also resets the results of the row
MarkProcessingResetsRow(f) ==
  /\ f.pc = "claim"
  /\ docs' = Update(docs, CurDoc(f).id,
                    [processing_status |-> "processing", extracted_text |-> NULL,
                     processing_error |-> NULL])
  /\ Step(f, [f EXCEPT !.pc = "download"])
  /\ UNCHANGED <<blobs, tmp, timerOn, resp, nextId, termWrites, meta, dl>>

\* update({ processing_status: 'processing' }).eq('id', id)
MarkProcessing(f) ==
  /\ f.pc = "claim"
  /\ docs' = Update(docs, CurDoc(f).id, [processing_status |-> "processing"])
  /\ Step(f, [f EXCEPT !.pc = "download"])
  /\ UNCHANGED <<blobs, tmp, timerOn, resp, nextId, termWrites, meta, dl>>

\* the bucket holds an object under the row's file_path
HasBlob(row) == row.file_path # NULL /\ row.file_path[1] \in DOMAIN blobs

\* storage.download(file_path); a downloadError is rethrown
\* (faulty: the bucket may answer with an error although the object exists)
Download(f, faulty) ==
  /\ f.pc = "download"
  /\ \/ /\ HasBlob(CurDoc(f))
        /\ Step(f, [f EXCEPT !.pc = "save",
                             !.pdfData = Some(blobs[CurDoc(f).file_path[1]])])
     \/ /\ faulty \/ ~HasBlob(CurDoc(f))
        /\ Throw(f, "Download failed: " \o BlobErrMsg)
  /\ UNCHANGED <<docs, blobs, tmp, timerOn, resp, nextId, termWrites, meta, dl>>

\* pdfData.arrayBuffer() and fs.writeFile(localPdfPath, ...)
\* (faulty: the write may throw)
SaveLocal(f, faulty) ==
  /\ f.pc = "save"
  /\ \/ /\ tmp' = tmp \cup {CurDoc(f).id}
        /\ Step(f, [f EXCEPT !.pc = "load"])
     \/ /\ faulty
        /\ Throw(f, WriteErrMsg)
        /\ UNCHANGED tmp
  /\ UNCHANGED <<docs, blobs, timerOn, resp, nextId, termWrites, meta, dl>>

\* a scanned-PDF test that also sends a total of exactly 100 per page to OCR
AfterPagesInclusive(total, pageCount) ==
  IF total <= DocOcrFactor * pageCount THEN "ocr" ELSE "completed"

\* where control goes after the page loop: the scanned-PDF test
AfterPages(total, pageCount) ==
  IF total < DocOcrFactor * pageCount THEN "ocr" ELSE "completed"

\* what one page contributes to pageTexts
PageEntry(pageNum, pageText) ==
  [pageNum |-> pageNum, text |-> pageText,
   needsOCR |-> Len(pageText) < PageOcrThreshold]

\* the page loop from page pageNum on, over frame f: getPage,
\* getTextContent, push, add; a page that cannot be read throws
RECURSIVE PageLoop(_, _)
PageLoop(f, pageNum) ==
  IF pageNum > f.pageCount
  THEN [f EXCEPT !.pageNum = pageNum,
                 !.pc = AfterPages(f.totalTextLength, f.pageCount)]
  ELSE LET page == f.pdfData[1].pages[pageNum]
           pageText == PageText(page)
       IN  IF page.ok
           THEN PageLoop([f EXCEPT
                            !.pageTexts = Append(f.pageTexts, PageEntry(pageNum, pageText)),
                            !.totalTextLength = f.totalTextLength + Len(pageText)],
                         pageNum + 1)
           ELSE [f EXCEPT !.pageNum = pageNum, !.pc = "failed",
                          !.error = Some(PageErrMsg)]

\* pdfjsLib.getDocument(...).promise, pageCount, and the direct extraction
\* of every page's text layer (these steps touch nothing but the frame)
ExtractDirect(f) ==
  /\ f.pc = "load"
  /\ LET pdf == f.pdfData[1]
     IN  IF pdf.valid
         THEN Step(f, PageLoop([f EXCEPT !.pageCount = Len(pdf.pages),
                                         !.pageTexts = <<>>,
                                         !.totalTextLength = 0], 1))
         ELSE Throw(f, LoadErrMsg)
  /\ UNCHANGED <<docs, blobs, tmp, timerOn, resp, nextId, termWrites, meta, dl>>

\* a replacement that also takes an OCR result of equal length
UseOcrResultIfNotShorter(f, text) ==
  IF Len(text) >= f.totalTextLength
  THEN [f EXCEPT !.pageTexts = << [pageNum |-> 1, text |-> text, needsOCR |-> FALSE] >>,
                 !.totalTextLength = Len(text)]
  ELSE f

\* the OCR result replaces the page texts when it is longer than their total
UseOcrResult(f, text) ==
  IF Len(text) > f.totalTextLength
  THEN [f EXCEPT !.pageTexts = << [pageNum |-> 1, text |-> text, needsOCR |-> FALSE] >>,
                 !.totalTextLength = Len(text)]
  ELSE f

\* an inner catch that hands the error on to the outer catch
OnOcrErrorRethrow(f) ==
  [f EXCEPT !.ocrThrew = TRUE, !.pc = "failed", !.error = Some("OCR failed")]

\* an inner catch that goes on with the text OCR would have read
OnOcrErrorKeepsOcrText(f) ==
  [UseOcrResult(f, f.pdfData[1].ocr) EXCEPT !.ocrThrew = TRUE, !.pc = "completed"]

\* what the inner catch does with an error of Tesseract.recognize
OnOcrError(f) == [f EXCEPT !.ocrThrew = TRUE, !.pc = "completed"]

\* Tesseract.recognize(localPdfPath, 'eng') inside its own try/catch; it
\* reads the temp file, and throws when the file is gone
\* (faulty: the OCR primitive may throw although the file is there)
RunOcr(f, faulty) ==
  /\ f.pc = "ocr"
  /\ \/ /\ CurDoc(f).id \in tmp
        /\ Step(f, [UseOcrResult(f, f.pdfData[1].ocr) EXCEPT
                       !.pc = "completed", !.ocrCalls = @ + 1])
     \/ /\ faulty \/ CurDoc(f).id \notin tmp
        /\ Step(f, [OnOcrError(f) EXCEPT !.ocrCalls = @ + 1])
  /\ UNCHANGED <<docs, blobs, tmp, timerOn, resp, nextId, termWrites, meta, dl>>

\* the columns written on success
CompletedFields(f, row) ==
  LET extractedText == CombinedText(f.pageTexts)
      metadata == MetadataOf[extractedText]
  IN  [extracted_text |-> Some(extractedText),
       job_number |-> metadata.jobNumber,
       formula_id |-> metadata.formulaId,
       product_name |-> metadata.productName,
       page_count |-> f.pageCount,
       processing_status |-> "completed",
       processed_at |-> Later(row.processed_at)]

\* combine, extractMetadata and the update that marks the row completed
MarkCompleted(f) ==
  /\ f.pc = "completed"
  /\ docs' = Update(docs, CurDoc(f).id, CompletedFields(f, docs[CurDoc(f).id]))
  /\ termWrites' = [termWrites EXCEPT ![CurDoc(f).id] = @ + 1]
  /\ Step(f, [f EXCEPT !.pc = "cleanup"])
  /\ UNCHANGED <<blobs, tmp, timerOn, resp, nextId, meta, dl>>

\* fs.unlink(localPdfPath).catch(() => {})
Unlink(f) == tmp' = tmp \ {CurDoc(f).id}

\* cleanup at the end of the try block, then processPDF returns
Cleanup(f) ==
  /\ f.pc = "cleanup"
  /\ Unlink(f)
  /\ ReturnFromProcessPDF(f)
  /\ UNCHANGED <<docs, blobs, resp, nextId, termWrites, meta, dl>>

\* the columns written by the catch block
FailedFields(f) ==
  [processing_status |-> "failed", processing_error |-> f.error]

\* catch: the update that marks the row failed
MarkFailed(f) ==
  /\ f.pc = "failed"
  /\ docs' = Update(docs, CurDoc(f).id, FailedFields(f))
  /\ termWrites' = [termWrites EXCEPT ![CurDoc(f).id] = @ + 1]
  /\ Step(f, [f EXCEPT !.pc = "cleanupOnError"])
  /\ UNCHANGED <<blobs, tmp, timerOn, resp, nextId, meta, dl>>

\* a catch block after which the poll gives up the rest of its batch
CleanupOnErrorAbortsBatch(f) ==
  /\ f.pc = "cleanupOnError"
  /\ Unlink(f)
  /\ ReturnFromPoll(f)
  /\ UNCHANGED <<docs, blobs, resp, nextId, termWrites, meta, dl>>

\* a catch block that returns without removing the temp file
CleanupOnErrorKeepsFile(f) ==
  /\ f.pc = "cleanupOnError"
  /\ UNCHANGED tmp
  /\ ReturnFromProcessPDF(f)
  /\ UNCHANGED <<docs, blobs, resp, nextId, termWrites, meta, dl>>

\* catch: cleanup on error, then processPDF returns
CleanupOnError(f) ==
  /\ f.pc = "cleanupOnError"
  /\ Unlink(f)
  /\ ReturnFromProcessPDF(f)
  /\ UNCHANGED <<docs, blobs, resp, nextId, termWrites, meta, dl>>

----------------------------------------------------------------------------
\* The whole system: the worker starts on a store that holds the pending
\* PDFs queued before (the table and the bucket outlive the processes);
\* requests of every kind reach the ingestion route, the interval timer
\* fires, and collaborators may fail.

\* the k-th queued row, for file f: pending, with its blob path
StoredRow(k, f) ==
  [PendingRow([filename |-> f.name, filePath |-> FilePath(k, f.name)], <<>>)
     EXCEPT !.uploaded_at = k]

\* the store holds the files fs[1], fs[2], ... as pending rows with blobs
Stored(fs) ==
  /\ docs = [k \in DOMAIN fs |-> StoredRow(k, fs[k])]
  /\ blobs = [p \in {FilePath(k, fs[k].name) : k \in DOMAIN fs} |-> fs[p[1]]]
  /\ tmp = {}
  /\ nextId = Len(fs) + 1
  /\ termWrites = [k \in DOMAIN fs |-> 0]

\* main: await pollForPendingDocuments() runs before setInterval is called
Init ==
  /\ \E n \in 0..MaxUploads : \E fs \in [1..n -> PdfFiles] : Stored(fs)
  /\ polls = SetToBag({NewFrame})
  /\ timerOn = FALSE
  /\ resp = NULL
  /\ meta = NoCalls
  /\ dl = NULL

Next ==
  \/ PostNoFile
  \/ \E f \in PdfFiles : PostPdf(f, MaxUploads + 1)
  \/ \E f \in ImageFiles : PostImage(f)
  \/ \E f \in OtherFiles : PostUnsupported(f)
  \/ Tick(MaxPolls)
  \/ \E f \in Frames : PollQuery(f, TRUE)
  \/ \E f \in Frames : MarkProcessing(f)
  \/ \E f \in Frames : Download(f, TRUE)
  \/ \E f \in Frames : SaveLocal(f, TRUE)
  \/ \E f \in Frames : ExtractDirect(f)
  \/ \E f \in Frames : RunOcr(f, TRUE)
  \/ \E f \in Frames : MarkCompleted(f)
  \/ \E f \in Frames : Cleanup(f)
  \/ \E f \in Frames : MarkFailed(f)
  \/ \E f \in Frames : CleanupOnError(f)

Spec == Init /\ [][Next]_vars

----------------------------------------------------------------------------
\* One queued document: the worker starts on a store that holds one pending
\* PDF of any kind, uploaded before; collaborators may fail.

InitOne ==
  /\ \E f \in AllPdfFiles : Stored(<<f>>)
  /\ polls = SetToBag({NewFrame})
  /\ timerOn = FALSE
  /\ resp = NULL
  /\ meta = NoCalls
  /\ dl = NULL

NextOne ==
  \/ Tick(MaxPolls)
  \/ \E f \in Frames : PollQuery(f, TRUE)
  \/ \E f \in Frames : MarkProcessing(f)
  \/ \E f \in Frames : Download(f, TRUE)
  \/ \E f \in Frames : SaveLocal(f, TRUE)
  \/ \E f \in Frames : ExtractDirect(f)
  \/ \E f \in Frames : RunOcr(f, TRUE)
  \/ \E f \in Frames : MarkCompleted(f)
  \/ \E f \in Frames : Cleanup(f)
  \/ \E f \in Frames : MarkFailed(f)
  \/ \E f \in Frames : CleanupOnError(f)

SpecOne == InitOne /\ [][NextOne]_vars

----------------------------------------------------------------------------
\* A long queue: the worker is running, its timer registered and no
\* invocation in progress, and MaxQueue PDFs have been uploaded since its
\* last poll; collaborators do not fail.

MaxQueue == 6

QueuedRow(k) == StoredRow(k, ScanPdf)

\* n PDFs wait in the queue of an idle worker
QueueOf(n) ==
  /\ docs = [k \in 1..n |-> QueuedRow(k)]
  /\ blobs = [p \in {FilePath(k, ScanPdf.name) : k \in 1..n} |-> ScanPdf]
  /\ tmp = {}
  /\ polls = EmptyBag
  /\ timerOn = TRUE
  /\ resp = NULL
  /\ meta = NoCalls
  /\ dl = NULL
  /\ nextId = n + 1
  /\ termWrites = [k \in 1..n |-> 0]

InitQueue == QueueOf(MaxQueue)

NextQueue ==
  \/ Tick(MaxPolls)
  \/ \E f \in Frames : PollQuery(f, FALSE)
  \/ \E f \in Frames : MarkProcessing(f)
  \/ \E f \in Frames : Download(f, FALSE)
  \/ \E f \in Frames : SaveLocal(f, FALSE)
  \/ \E f \in Frames : ExtractDirect(f)
  \/ \E f \in Frames : RunOcr(f, FALSE)
  \/ \E f \in Frames : MarkCompleted(f)
  \/ \E f \in Frames : Cleanup(f)

SpecQueue == InitQueue /\ [][NextQueue]_vars

-----------------------------------------------------------------------------
\* The queue under fair scheduling: the timer keeps firing, the pending query
\* returns its rows and every awaited call of a processPDF invocation
\* returns its result; the queue is one longer than a batch.

\* the steps of a processPDF invocation whose collaborators do not fail
ProcessPDFStep(f) ==
  \/ MarkProcessing(f)
  \/ Download(f, FALSE)
  \/ SaveLocal(f, FALSE)
  \/ ExtractDirect(f)
  \/ RunOcr(f, FALSE)
  \/ MarkCompleted(f)
  \/ Cleanup(f)

\* a step of an invocation that is working on document d
StepOn(d) ==
  \E f \in InProcessPDF : CurDoc(f).id = d /\ ProcessPDFStep(f)

InitLive == QueueOf(MaxQueue)

NextLive ==
  \/ Tick(MaxPolls)
  \/ \E f \in Frames : PollQuery(f, FALSE)
  \/ \E d \in DOMAIN docs : StepOn(d)

LiveSpec ==
  /\ InitLive
  /\ [][NextLive]_vars
  /\ WF_vars(Tick(MaxPolls))
  /\ WF_vars(\E f \in Frames : PollQuery(f, FALSE))
  /\ \A d \in 1..MaxQueue : WF_vars(StepOn(d))

-----------------------------------------------------------------------------
\* Vocabulary of the properties.

Terminal(status) == status \in {"completed", "failed"}

\* two processPDF calls are in progress on document d
TwoInvocationsOn(d) ==
  \E f, g \in InProcessPDF :
    /\ CurDoc(f).id = d
    /\ CurDoc(g).id = d
    /\ f # g \/ CopiesIn(f, polls) >= 2

\* this step is a step of frame f
Moved(f) == CopiesIn(f, polls') < CopiesIn(f, polls)

\* this step is frame f's write of a terminal status
TerminalWriteBy(f) == f.pc \in {"completed", "failed"} /\ Moved(f)

\* C1: with one worker, no document is in two processPDF calls at once and
\* no document receives more than one write of a terminal status.
C1_OneInvocationOneTerminalWrite ==
  \A d \in DOMAIN docs : ~TwoInvocationsOn(d) /\ termWrites[d] <= 1

\* C2: for every document, processingError is non-null iff its status is
\* failed.
C2_ErrorIffFailed ==
  \A d \in DOMAIN docs :
    (docs[d].processing_error # NULL) <=> (docs[d].processing_status = "failed")

\* C3: for every document, a non-null extractedText implies status completed.
C3_TextOnlyIfCompleted ==
  \A d \in DOMAIN docs :
    docs[d].extracted_text # NULL => docs[d].processing_status = "completed"

\* C4: a completed or failed document never changes status again, and no
\* poll selects a document whose status is failed.
C4_TerminalIsFinal ==
  [][ /\ \A d \in DOMAIN docs :
           Terminal(docs[d].processing_status)
             => docs'[d].processing_status = docs[d].processing_status
      /\ \A f \in BagToSet(polls') :
           (f.pc = "claim" /\ f.idx = 1 /\ CopiesIn(f, polls') > CopiesIn(f, polls))
             => \A k \in 1..Len(f.batch) :
                  docs[f.batch[k].id].processing_status # "failed" ]_vars

\* C7: at most one processPDF call is in progress at any moment.
C7_OneDocumentAtATime ==
  \A f, g \in InProcessPDF : f = g /\ CopiesIn(f, polls) = 1

\* the messages the catch block can receive from the download, the write of
\* the temp copy, the load of the PDF and the read of a page
ThrownMessages ==
  {"Download failed: Object not found", "ENOSPC: no space left on device",
   "Invalid PDF structure.", "Invalid page request."}

\* C8: when the download returns an error, or the temp write, the load or a
\* page read throws, the write of the catch block leaves the document failed,
\* with processingError the thrown message and extractedText null.
C8_FailureRecorded ==
  [][ \A f \in Frames :
        (f.pc = "failed" /\ Moved(f))
          => LET row == docs'[CurDoc(f).id]
             IN  /\ row.processing_status = "failed"
                 /\ row.processing_error = f.error
                 /\ \E m \in ThrownMessages : row.processing_error = Some(m)
                 /\ row.extracted_text = NULL ]_vars

\* this step is frame f's removal of its temp file, on either path
CleanupBy(f) == f.pc \in {"cleanup", "cleanupOnError"} /\ Moved(f)

C10_FallbackFailureAbsorbed ==
  [][ \A f \in Frames :
        (f.ocrThrew /\ TerminalWriteBy(f))
          => LET row == docs'[CurDoc(f).id]
             IN  /\ row.processing_status = "completed"
                 /\ row.extracted_text = Some(DirectText(f.pdfData[1]))
                 /\ row.page_count = Len(f.pdfData[1].pages) ]_vars

\* an attempt whose OCR fallback threw has completed a PDF with an empty page
C10_Witness ==
  \E f \in Frames :
    /\ f.ocrThrew
    /\ f.pc = "cleanup"
    /\ f.pdfData = Some(DimPdf)
    /\ docs[CurDoc(f).id].processing_status = "completed"
    /\ docs[CurDoc(f).id].extracted_text = Some(DirectText(DimPdf))
    /\ \E k \in 1..Len(f.pageTexts) : f.pageTexts[k].text = <<>>

\* the documents that went through the queue
Queued == {d \in DOMAIN docs : docs[d].file_path # NULL}

\* a batch holds at most 5 rows, by strictly ascending uploaded_at
BatchInOrder(f) ==
  /\ Len(f.batch) <= 5
  /\ \A j, k \in 1..Len(f.batch) :
       j < k => docs[f.batch[j].id].uploaded_at < docs[f.batch[k].id].uploaded_at

\* frame g of the next state has just received its batch from the select
JustSelected(g) ==
  g.pc = "claim" /\ g.idx = 1 /\ CopiesIn(g, polls') > CopiesIn(g, polls)

\* C6: each poll selects at most 5 documents, all pending when it queries,
\* by ascending uploadedAt, and a document is marked processing only when
\* no older queued document is still pending.
C6_OldestFirst ==
  /\ [](\A f \in Frames : BatchInOrder(f))
  /\ [][ /\ \A g \in BagToSet(polls') :
              JustSelected(g)
                => \A k \in 1..Len(g.batch) :
                     docs[g.batch[k].id].processing_status = "pending"
         /\ \A b \in DOMAIN docs :
              (docs'[b].processing_status = "processing"
                 /\ docs[b].processing_status # "processing")
                => \A a \in Queued :
                     docs[a].uploaded_at < docs[b].uploaded_at
                       => docs[a].processing_status # "pending" ]_vars

\* a poll took 5 of 6 pending documents and is past the first of them
C6_Witness ==
  \E f \in Frames :
    /\ Len(f.batch) = 5
    /\ f.idx >= 2
    /\ Cardinality(DOMAIN docs) > 5
    /\ \E d \in DOMAIN docs :
         /\ docs[d].processing_status = "pending"
         /\ \A k \in 1..Len(f.batch) : f.batch[k].id # d
                                        /\ docs[f.batch[k].id].uploaded_at < docs[d].uploaded_at

EmptyPollReturns ==
  /\ CopiesIn(NewFrame, polls) > 0
  /\ polls' = polls (-) SetToBag({NewFrame})

\* C11: a poll that selects no document changes no document, no blob and no
\* temp file, leaves the other invocations alone, and leaves the worker
\* running with its interval timer registered, so that a next poll follows.
C11_EmptyPollIsNoOp ==
  [][ EmptyPollReturns
        => /\ docs' = docs
           /\ tmp' = tmp
           /\ blobs' = blobs
           /\ timerOn' ]_vars

\* the worker's first poll found an empty store, or got an error, and
\* returned: nothing was touched and the timer is registered
C11_Witness ==
  /\ polls = EmptyBag
  /\ timerOn
  /\ docs = <<>>
  /\ tmp = {}

\* this step answers a POST request
RequestAnswered == resp' # NULL /\ (resp' # resp \/ nextId' # nextId)

\* C12: a request that fails, because the content kind is unsupported, the
\* fast-path OCR primitive throws or the blob put returns an error, creates
\* no document and changes no document: the table is as it was.
C12_FailedRequestLeavesStore ==
  [][ (RequestAnswered /\ resp'[1].status # 200) => docs' = docs ]_vars

\* a PDF upload was answered with the upload failure while documents are
\* queued, and the queue is as it was stored
C12_Witness ==
  /\ resp = Some([status |-> 500, error |-> "Failed to upload file: Bucket not found"])
  /\ polls = SetToBag({NewFrame})
  /\ DOMAIN docs # {}
  /\ \A d \in DOMAIN docs : docs[d] = StoredRow(d, blobs[docs[d].file_path[1]])

\* the failures the request can report without having reached an insert
ReportedFailures ==
  {"No file provided",
   "Unsupported file type. Please upload PDF or images (JPG, PNG).",
   "Failed to upload file: Bucket not found",
   "Failed to process document: Error attempting to read image."}

\* C13: a request either reports such a failure, or it is answered 200 and
\* has inserted exactly one document: completed, with text, pageCount 1 and
\* processedAt set (image), or pending with filePath set and no text (PDF);
\* never a document in status processing or failed.
C13_IngestionCreatesCompletedOrPending ==
  [][ RequestAnswered
        => \/ resp'[1].error \in ReportedFailures /\ docs' = docs
           \/ /\ resp'[1].status = 200
              /\ \E d \in DOMAIN docs' \ DOMAIN docs :
                   /\ DOMAIN docs' = DOMAIN docs \cup {d}
                   /\ \/ /\ docs'[d].processing_status = "completed"
                         /\ docs'[d].extracted_text # NULL
                         /\ docs'[d].page_count = 1
                         /\ docs'[d].processed_at # NULL
                      \/ /\ docs'[d].processing_status = "pending"
                         /\ docs'[d].file_path # NULL
                         /\ docs'[d].extracted_text = NULL ]_vars

\* '--- Page N ---'
Marker(n) ==
  <<"-", "-", "-", " ", "P", "a", "g", "e", " ">> \o NumToText(n) \o <<" ", "-", "-", "-">>

\* the text layer of page k of a PDF: its items separated by one space,
\* without leading and trailing whitespace
LayerText(pdf, k) == Trim(Join(pdf.pages[k].items, <<" ">>))

\* the summed length of the text layers of the pages
RECURSIVE LayerLength(_, _)
LayerLength(pdf, k) ==
  IF k = 0 THEN 0 ELSE LayerLength(pdf, k - 1) + Len(LayerText(pdf, k))

\* pages 1..k of a PDF, each under its marker, separated by a blank line
RECURSIVE MarkedPages(_, _)
MarkedPages(pdf, k) ==
  IF k = 0 THEN <<>>
  ELSE (IF k = 1 THEN <<>> ELSE MarkedPages(pdf, k - 1) \o <<"\n", "\n">>)
         \o Marker(k) \o <<"\n">> \o LayerText(pdf, k)

\* a PDF with at least 100 characters of text layer per page
TextNative(pdf) == LayerLength(pdf, Len(pdf.pages)) >= 100 * Len(pdf.pages)

\* this step is frame f's write of the completed status
CompletedWriteBy(f) == f.pc = "completed" /\ Moved(f)

\* C14: for a PDF whose summed direct-extraction length is at least
\* 100 x pageCount the OCR primitive is never invoked, and the text written
\* is the direct page texts under their markers, in ascending page order,
\* separated by blank lines.
C14_TextNativeSkipsOcr ==
  /\ [](\A f \in InProcessPDF :
          (f.pdfData # NULL /\ f.pageCount > 0 /\ TextNative(f.pdfData[1]))
            => f.pc # "ocr" /\ f.ocrCalls = 0)
  /\ [][ \A f \in Frames :
           (CompletedWriteBy(f) /\ TextNative(f.pdfData[1]))
             => LET pdf == f.pdfData[1]
                    row == docs'[CurDoc(f).id]
                IN  /\ row.extracted_text = Some(MarkedPages(pdf, Len(pdf.pages)))
                    /\ row.page_count = Len(pdf.pages) ]_vars

\* the two-page PDF with exactly 100 characters per page was completed
\* with both pages under their markers, without OCR
C14_Witness ==
  \E f \in Frames :
    /\ f.pc = "cleanup"
    /\ f.pdfData = Some(TextPdf)
    /\ f.ocrCalls = 0
    /\ docs[CurDoc(f).id].processing_status = "completed"
    /\ docs[CurDoc(f).id].extracted_text = Some(MarkedPages(TextPdf, 2))
    /\ Len(MarkedPages(TextPdf, 2)) = 232

\* C15: for a PDF whose summed direct-extraction length is below
\* 100 x pageCount the OCR primitive is invoked exactly once; the text
\* written is '--- Page 1 ---', a newline and the OCR text if the OCR text
\* is strictly longer than the summed direct length, and the direct page
\* texts otherwise (OCR text equal, shorter, or the primitive threw).
C15_ScannedUsesLongerOcrText ==
  [][ \A f \in Frames :
        (CompletedWriteBy(f) /\ ~TextNative(f.pdfData[1]))
          => LET pdf == f.pdfData[1]
                 n == Len(pdf.pages)
                 row == docs'[CurDoc(f).id]
             IN  /\ f.ocrCalls = 1
                 /\ row.extracted_text =
                      Some(IF ~f.ocrThrew /\ Len(pdf.ocr) > LayerLength(pdf, n)
                           THEN Marker(1) \o <<"\n">> \o pdf.ocr
                           ELSE MarkedPages(pdf, n)) ]_vars

\* a scanned PDF whose OCR text is longer was completed with the OCR text
\* under the single marker of page 1
C15_Witness ==
  \E f \in Frames :
    /\ f.pc = "cleanup"
    /\ f.pdfData = Some(ScanPdf)
    /\ f.ocrCalls = 1
    /\ ~f.ocrThrew
    /\ docs[CurDoc(f).id].extracted_text = Some(Marker(1) \o <<"\n">> \o ScanPdf.ocr)

\* the processPDF calls in progress on document d
AttemptsOn(d) == {f \in InProcessPDF : CurDoc(f).id = d}

C17_ProcessedAtSetOnceAtTerminal ==
  /\ [](\A d \in DOMAIN docs :
          Terminal(docs[d].processing_status) <=> docs[d].processed_at # NULL)
  /\ [][ \A d \in DOMAIN docs :
           LET enters == /\ ~Terminal(docs[d].processing_status)
                         /\ Terminal(docs'[d].processing_status)
           IN  IF enters
               THEN docs[d].processed_at = NULL /\ docs'[d].processed_at # NULL
               ELSE docs'[d].processed_at = docs[d].processed_at ]_vars

AllSpace(text, a, b) == \A q \in a..b : IsSpace(text[q])
AllSep(text, a, b) == \A q \in a..b : IsSep(text[q])
AllDigit(text, a, b) == \A q \in a..b : IsDigit(text[q])
AllNameChar(text, a, b) == \A q \in a..b : IsNameChar(text[q])

\* the occurrences in text of: word, optional whitespace, mark, optional
\* whitespace or colons, one or more digits; as <<start, first digit, last digit>>
Occurrences(text, word, mark) ==
  LET n == Len(text)
      marks(p) == {i \in (p + Len(word))..n :
                     AllSpace(text, p + Len(word), i - 1) /\ LitAt(text, i, mark)}
      firsts(i) == {j \in (i + Len(mark))..n :
                      AllSep(text, i + Len(mark), j - 1) /\ IsDigit(text[j])}
      lasts(j) == {k \in j..n : AllDigit(text, j, k)}
  IN  UNION {UNION {UNION {{<<p, j, k>> : k \in lasts(j)} : j \in firsts(i)}
                      : i \in marks(p)}
               : p \in {q \in 1..n : LitAt(text, q, word)}}

\* the digit run of the first occurrence in document order, or NULL
FirstOccurrenceDigits(text, word, mark) ==
  LET ms == Occurrences(text, word, mark)
  IN  IF ms = {} THEN NULL
      ELSE LET p == Least({m[1] : m \in ms})
               atP == {m \in ms : m[1] = p}
               j == Least({m[2] : m \in atP})
               k == Greatest({m[3] : m \in atP})
           IN  Some(SubSeq(text, j, k))

\* C19: on every text a call of extractMetadata returns; jobNumber is the
\* digit run of the first occurrence, in document order and ignoring case,
\* of 'Job', optional whitespace, '#', optional whitespace or colons,
\* digits, and null when there is none; formulaId is the same for
\* 'Formula', 'ID'.
C19_FirstJobAndFormulaNumbers ==
  meta.out # NULL =>
    LET call == meta.out[1]
    IN  /\ DOMAIN call.metadata = {"jobNumber", "formulaId", "productName"}
        /\ call.metadata.jobNumber =
             FirstOccurrenceDigits(call.text, <<"j", "o", "b">>, <<"#">>)
        /\ call.metadata.formulaId =
             FirstOccurrenceDigits(call.text,
                 <<"f", "o", "r", "m", "u", "l", "a">>, <<"i", "d">>)

\* a call on 'Job #1 job#:27Formula ID: 3', which holds two job numbers,
\* returned the first one and the formula id
C19_Witness ==
  /\ meta.out # NULL
  /\ Cardinality(Occurrences(meta.out[1].text, <<"j", "o", "b">>, <<"#">>)) = 3
  /\ meta.out[1].metadata.jobNumber = Some(<<"1">>)
  /\ meta.out[1].metadata.formulaId = Some(<<"3">>)

\* the occurrences in text of: 'Name', at least minSeps whitespace or colon
\* characters, a non-empty run of letters, digits, '%' and whitespace, and
\* then a newline, 'Gallons' or 'Pounds'; as <<start, first, last of the run>>
NameOccurrences(text, minSeps) ==
  LET n == Len(text)
      firsts(p) == {c \in (p + 4 + minSeps)..n : AllSep(text, p + 4, c - 1)}
      lasts(c) == {e \in c..n : AllNameChar(text, c, e) /\ NameEndAt(text, e + 1)}
  IN  UNION {UNION {{<<p, c, e>> : e \in lasts(c)} : c \in firsts(p)}
               : p \in {q \in 1..n : LitAt(text, q, <<"n", "a", "m", "e">>)}}

\* the trimmed run of the first occurrence in document order, its
\* separators taken as long and its run as short as an occurrence allows;
\* NULL when there is no occurrence
FirstOccurrenceName(text, minSeps) ==
  LET ms == NameOccurrences(text, minSeps)
  IN  IF ms = {} THEN NULL
      ELSE LET p == Least({m[1] : m \in ms})
               c == Greatest({m[2] : m \in ms \cap ({p} \X (1..Len(text)) \X (1..Len(text)))})
               e == Least({m[3] : m \in ms \cap ({p} \X {c} \X (1..Len(text)))})
           IN  Some(Trim(SubSeq(text, c, e)))

\* C20 as claimed: productName is the trimmed capture of the first match of
\* 'Name', zero or more whitespace or colon characters, a lazily captured
\* run of letters, digits, '%' and whitespace ended by a newline, 'Gallons'
\* or 'Pounds'; null when there is no such match.
C20_NameAfterOptionalSeparators ==
  meta.out # NULL =>
    meta.out[1].metadata.productName = FirstOccurrenceName(meta.out[1].text, 0)

\* C20: productName is the trimmed capture of the first match of 'Name',
\* one or more whitespace or colon characters, a lazily captured run of
\* letters, digits, '%' and whitespace ended by a newline, 'Gallons' or
\* 'Pounds'; null when there is no such match.
C20_NameAfterSeparators ==
  meta.out # NULL =>
    meta.out[1].metadata.productName = FirstOccurrenceName(meta.out[1].text, 1)

\* a call on a text with a separator after 'Name' and two line ends after
\* it returned the name up to the first line end
C20_Witness ==
  /\ meta.out # NULL
  /\ Cardinality(NameOccurrences(meta.out[1].text, 1)) > 1
  /\ meta.out[1].metadata.productName = Some(<<"A", "b", " ", "9", "%">>)

----------------------------------------------------------------------------
\* The download route (GET /api/documents/[id]/download).

NotFoundMsg == "Document not found"
NoFileMsg == "No file stored for this document"
UrlErrMsg == "Failed to generate download URL"

\* NextResponse.json({ error }, { status })
DownloadError(id, status, error) ==
  Some([id |-> id, status |-> status, error |-> Some(error), url |-> NULL])

\* NextResponse.json({ url: signedUrl.signedUrl, filename })
DownloadUrl(id, path) ==
  Some([id |-> id, status |-> 200, error |-> NULL, url |-> Some(path)])

\* a download route that signs whatever the file_path column holds
GetDownloadNoPathCheck(id, faulty) ==
  /\ \/ /\ id \notin DOMAIN docs \/ faulty
        /\ dl' = DownloadError(id, 404, NotFoundMsg)
     \/ /\ id \in DOMAIN docs
        /\ \/ /\ docs[id].file_path # NULL => docs[id].file_path[1] \in DOMAIN blobs
              /\ dl' = DownloadUrl(id, IF docs[id].file_path = NULL
                                       THEN FilePath(0, "null")
                                       ELSE docs[id].file_path[1])
           \/ /\ faulty \/ (docs[id].file_path # NULL /\ docs[id].file_path[1] \notin DOMAIN blobs)
              /\ dl' = DownloadError(id, 500, UrlErrMsg)
  /\ UNCHANGED <<docs, blobs, tmp, polls, timerOn, resp, nextId, termWrites, meta>>

\* GET: select file_path, filename by id (.single(): an error when there is
\* no such row); 404 without a row or without a file_path; otherwise
\* createSignedUrl, whose error answers 500
\* (faulty: the select or the signing may return an error)
GetDownload(id, faulty) ==
  /\ \/ /\ id \notin DOMAIN docs \/ faulty
        /\ dl' = DownloadError(id, 404, NotFoundMsg)
     \/ /\ id \in DOMAIN docs
        /\ docs[id].file_path = NULL
        /\ dl' = DownloadError(id, 404, NoFileMsg)
     \/ /\ id \in DOMAIN docs
        /\ docs[id].file_path # NULL
        /\ \/ /\ docs[id].file_path[1] \in DOMAIN blobs
              /\ dl' = DownloadUrl(id, docs[id].file_path[1])
           \/ /\ faulty \/ docs[id].file_path[1] \notin DOMAIN blobs
              /\ dl' = DownloadError(id, 500, UrlErrMsg)
  /\ UNCHANGED <<docs, blobs, tmp, polls, timerOn, resp, nextId, termWrites, meta>>

\* the row the image branch of the ingestion route writes (route.ts, lines
\* 180-194): completed, with the OCR text, one page, and no file_path
ImageRow(f, uploadedAt) ==
  LET metadata == routeExtractMetadata(f.ocr)
  IN  [NewRow(f.name, uploadedAt) EXCEPT
         !.job_number = metadata.jobNumber,
         !.formula_id = metadata.formulaId,
         !.product_name = metadata.productName,
         !.extracted_text = Some(f.ocr),
         !.page_count = 1,
         !.processing_status = "completed",
         !.processed_at = Some(uploadedAt)]

\* the ids a download request can name: those of the store, and one of no row
DownloadIds == 1..(MaxUploads + 2)

\* the store holds one pending PDF and one row without a file_path, as the
\* image branch writes it (the table outlives the processes and accepts
\* rows from any client); the worker starts, and requests arrive
InitDownload ==
  /\ \E f \in PdfFiles :
       /\ docs = <<StoredRow(1, f), ImageRow(PngImage, 2)>>
       /\ blobs = (FilePath(1, f.name) :> f)
  /\ tmp = {}
  /\ nextId = 3
  /\ termWrites = <<0, 0>>
  /\ polls = SetToBag({NewFrame})
  /\ timerOn = FALSE
  /\ resp = NULL
  /\ meta = NoCalls
  /\ dl = NULL

NextDownload ==
  \/ \E id \in DownloadIds : GetDownload(id, TRUE)
  \/ \E f \in PdfFiles : PostPdf(f, MaxUploads + 1)
  \/ \E f \in ImageFiles : PostImage(f)
  \/ Tick(MaxPolls)
  \/ \E f \in Frames : PollQuery(f, TRUE)
  \/ \E f \in Frames : MarkProcessing(f)
  \/ \E f \in Frames : Download(f, TRUE)
  \/ \E f \in Frames : SaveLocal(f, TRUE)
  \/ \E f \in Frames : ExtractDirect(f)
  \/ \E f \in Frames : RunOcr(f, TRUE)
  \/ \E f \in Frames : MarkCompleted(f)
  \/ \E f \in Frames : Cleanup(f)
  \/ \E f \in Frames : MarkFailed(f)
  \/ \E f \in Frames : CleanupOnError(f)

SpecDownload == InitDownload /\ [][NextDownload]_vars

\* this step answers a download request
DownloadAnswered == dl' # dl

\* C21: a download request is answered with a signed URL only if a document
\* with its id exists and has a file_path, and with 404 when no such
\* document exists or it has no file_path; no step changes the file_path of
\* a document, so a document without one is answered 404 at any time.
C21_DownloadNeedsFilePath ==
  /\ [][ DownloadAnswered =>
           LET a == dl'[1]
           IN  /\ a.url # NULL => /\ a.id \in DOMAIN docs
                                  /\ docs[a.id].file_path # NULL
                                  /\ a.url = Some(docs[a.id].file_path[1])
                                  /\ a.status = 200
               /\ (a.id \notin DOMAIN docs \/ docs[a.id].file_path = NULL)
                    => a.status = 404 /\ a.url = NULL ]_vars
  /\ [][ \A d \in DOMAIN docs :
           d \in DOMAIN docs' /\ docs'[d].file_path = docs[d].file_path ]_vars

\* after the worker has finished the queued PDF, a download request for the
\* image's row was answered 404: the row has no file
C21_Witness ==
  /\ dl = DownloadError(2, 404, NoFileMsg)
  /\ docs[2].file_path = NULL
  /\ Terminal(docs[1].processing_status)
  /\ nextId > 3

\* the status changes of the document lifecycle
LifecycleSteps ==
  {<<"pending", "processing">>, <<"processing", "completed">>,
   <<"processing", "failed">>}

\* C22: every change of a stored document's status is pending->processing,
\* processing->completed or processing->failed; a row changes only in a
\* step of a processPDF call on it; no row is ever removed.
C22_LifecycleOnly ==
  [][ \A d \in DOMAIN docs :
        /\ d \in DOMAIN docs'
        /\ docs'[d].processing_status # docs[d].processing_status
             => <<docs[d].processing_status, docs'[d].processing_status>>
                  \in LifecycleSteps
        /\ docs'[d] # docs[d] => \E f \in AttemptsOn(d) : Moved(f) ]_vars

\* this step is frame f's claim update
ClaimBy(f) == f.pc = "claim" /\ Moved(f)

\* C23: the claim step sets processing_status of the claimed row to
\* processing and changes no other column of it and no other row; the
\* download of a processPDF call starts only after its claim step.
C23_ClaimWritesStatusOnly ==
  /\ [][ \A f \in Frames :
           ClaimBy(f) =>
             /\ docs' = [docs EXCEPT ![CurDoc(f).id].processing_status = "processing"]
             /\ f.pdfData = NULL
             /\ blobs' = blobs /\ tmp' = tmp ]_vars
  /\ [][ \A g \in BagToSet(polls') :
           (g.pc = "download" /\ CopiesIn(g, polls') > CopiesIn(g, polls))
             => \E f \in Frames : ClaimBy(f) /\ g = [f EXCEPT !.pc = "download"] ]_vars

\* a document was claimed while another document of the store is completed
\* with its text: the claimed row is processing, still without text or error
C23_Witness ==
  \E f \in Frames :
    /\ f.pc = "download"
    /\ docs[CurDoc(f).id].processing_status = "processing"
    /\ docs[CurDoc(f).id].extracted_text = NULL
    /\ docs[CurDoc(f).id].processing_error = NULL
    /\ \E e \in DOMAIN docs : /\ e # CurDoc(f).id
                              /\ docs[e].processing_status = "completed"
                              /\ docs[e].extracted_text # NULL

----------------------------------------------------------------------------
\* Two worker processes on the same store.  Each runs the program of
\* index.js; within a process a poll starts only when its previous poll has
\* returned, so that what the two do to each other is not mixed up with
\* the overlap of polls inside one process.

Workers == {1, 2}

\* the frames of worker process w
FramesOf(w) == {f \in Frames : f.worker = w}

\* worker process w starts a poll: at start-up, and at a timer tick that
\* finds its previous poll returned
StartPoll(w) ==
  /\ FramesOf(w) = {}
  /\ polls' = polls (+) SetToBag({[NewFrame EXCEPT !.worker = w]})
  /\ UNCHANGED <<docs, blobs, tmp, timerOn, resp, nextId, termWrites, meta, dl>>

InitTwo ==
  /\ \E n \in 1..MaxUploads : \E fs \in [1..n -> PdfFiles] : Stored(fs)
  /\ polls = EmptyBag
  /\ timerOn = FALSE
  /\ resp = NULL
  /\ meta = NoCalls
  /\ dl = NULL

NextTwo ==
  \/ \E w \in Workers : StartPoll(w)
  \/ \E f \in Frames : PollQuery(f, TRUE)
  \/ \E f \in Frames : MarkProcessing(f)
  \/ \E f \in Frames : Download(f, TRUE)
  \/ \E f \in Frames : SaveLocal(f, TRUE)
  \/ \E f \in Frames : ExtractDirect(f)
  \/ \E f \in Frames : RunOcr(f, TRUE)
  \/ \E f \in Frames : MarkCompleted(f)
  \/ \E f \in Frames : Cleanup(f)
  \/ \E f \in Frames : MarkFailed(f)
  \/ \E f \in Frames : CleanupOnError(f)

SpecTwo == InitTwo /\ [][NextTwo]_vars

\* C25: the claim update does not look at the current status: whatever the
\* status of the row, the step sets it to processing and the call goes on
\* to the download.  So two worker processes that have both selected a
\* pending document both process it, and each writes a terminal status.
C25_ClaimIsUnconditional ==
  [][ \A f \in Frames :
        ClaimBy(f) =>
          /\ docs'[CurDoc(f).id].processing_status = "processing"
          /\ [f EXCEPT !.pc = "download"] \in BagToSet(polls') ]_vars

\* both worker processes selected the same document, both processed it,
\* and each has written a terminal status
C25_Witness ==
  \E f, g \in Frames :
    /\ f.worker = 1
    /\ g.worker = 2
    /\ f.pc \in {"cleanup", "cleanupOnError"}
    /\ g.pc \in {"cleanup", "cleanupOnError"}
    /\ CurDoc(f).id = CurDoc(g).id
    /\ termWrites[CurDoc(f).id] = 2

----------------------------------------------------------------------------
\* A worker process that can stop at any moment and be started again.  The
\* table, the bucket and the temp directory outlive the process; its
\* invocations and its timer do not.

\* the process stops: at any await, or idle between two ticks
Crash ==
  /\ polls # EmptyBag \/ timerOn
  /\ polls' = EmptyBag
  /\ timerOn' = FALSE
  /\ UNCHANGED <<docs, blobs, tmp, resp, nextId, termWrites, meta, dl>>

\* the process is started again: main calls pollForPendingDocuments
Restart ==
  /\ polls = EmptyBag
  /\ ~timerOn
  /\ polls' = SetToBag({NewFrame})
  /\ UNCHANGED <<docs, blobs, tmp, timerOn, resp, nextId, termWrites, meta, dl>>

NextCrash ==
  \/ Crash
  \/ Restart
  \/ Tick(MaxPolls)
  \/ \E f \in Frames : PollQuery(f, TRUE)
  \/ \E f \in Frames : MarkProcessing(f)
  \/ \E f \in Frames : Download(f, TRUE)
  \/ \E f \in Frames : SaveLocal(f, TRUE)
  \/ \E f \in Frames : ExtractDirect(f)
  \/ \E f \in Frames : RunOcr(f, TRUE)
  \/ \E f \in Frames : MarkCompleted(f)
  \/ \E f \in Frames : Cleanup(f)
  \/ \E f \in Frames : MarkFailed(f)
  \/ \E f \in Frames : CleanupOnError(f)

SpecCrash == Init /\ [][NextCrash]_vars

\* frame f still has document d before it: d is the row it is working on
\* or a later row of its batch
Holds(f, d) == \E k \in 1..Len(f.batch) : k >= f.idx /\ f.batch[k].id = d

\* document d is in processing and no invocation of the worker has it
Stranded(d) ==
  /\ docs[d].processing_status = "processing"
  /\ \A f \in Frames : ~Holds(f, d)

\* C24: a document left in processing by a worker process that stopped
\* stays as it is: no step changes its row, and no poll, of this process or
\* of a restarted one, selects it.
C24_StrandedStaysProcessing ==
  [][ \A d \in DOMAIN docs :
        Stranded(d) => /\ docs'[d] = docs[d]
                       /\ \A g \in BagToSet(polls') : ~Holds(g, d) ]_vars

\* the process stopped while a document was in processing, it was started
\* again and the poll of the new process has returned: the document is
\* still in processing
C24_Witness ==
  /\ polls = EmptyBag
  /\ timerOn
  /\ \E d \in DOMAIN docs : Stranded(d)

----------------------------------------------------------------------------
\* Store updates that fail.  supabase-js resolves an update that the store
\* rejects to { error } without throwing; processPDF awaits its three
\* updates and does not look at what they resolve to.

\* the claim update is rejected: nothing is written, the call goes on
MarkProcessingRejected(f) ==
  /\ f.pc = "claim"
  /\ Step(f, [f EXCEPT !.pc = "download"])
  /\ UNCHANGED <<docs, blobs, tmp, timerOn, resp, nextId, termWrites, meta, dl>>

\* the completed update is rejected: nothing is written, the call goes on
\* to its cleanup
MarkCompletedRejected(f) ==
  /\ f.pc = "completed"
  /\ Step(f, [f EXCEPT !.pc = "cleanup"])
  /\ UNCHANGED <<docs, blobs, tmp, timerOn, resp, nextId, termWrites, meta, dl>>

\* the failed update of the catch block is rejected: nothing is written
MarkFailedRejected(f) ==
  /\ f.pc = "failed"
  /\ Step(f, [f EXCEPT !.pc = "cleanupOnError"])
  /\ UNCHANGED <<docs, blobs, tmp, timerOn, resp, nextId, termWrites, meta, dl>>

\* one queued document, one poll at a time, and a store that may reject
\* any update
NextStoreErrors ==
  \/ Tick(1)
  \/ \E f \in Frames : PollQuery(f, TRUE)
  \/ \E f \in Frames : MarkProcessing(f)
  \/ \E f \in Frames : MarkProcessingRejected(f)
  \/ \E f \in Frames : Download(f, TRUE)
  \/ \E f \in Frames : SaveLocal(f, TRUE)
  \/ \E f \in Frames : ExtractDirect(f)
  \/ \E f \in Frames : RunOcr(f, TRUE)
  \/ \E f \in Frames : MarkCompleted(f)
  \/ \E f \in Frames : MarkCompletedRejected(f)
  \/ \E f \in Frames : Cleanup(f)
  \/ \E f \in Frames : MarkFailed(f)
  \/ \E f \in Frames : MarkFailedRejected(f)
  \/ \E f \in Frames : CleanupOnError(f)

SpecStoreErrors == InitOne /\ [][NextStoreErrors]_vars

\* C26: when a processPDF call on a document returns, the stored status of
\* that document is completed or failed, also when the store has rejected
\* one of the call's updates.
C26_ReturnedMeansTerminal ==
  [][ \A f \in Frames :
        CleanupBy(f) => Terminal(docs'[CurDoc(f).id].processing_status) ]_vars

\* the bucket holds the bytes of the row under its file_path
Backed(row, bucket) ==
  row.file_path # NULL /\ row.file_path[1] \in DOMAIN bucket

C28_FailureConfinedToDocument ==
  /\ [][ \A f \in Frames :
           (f.pc = "failed" /\ Moved(f))
             => \A d \in DOMAIN docs : d # CurDoc(f).id => docs'[d] = docs[d] ]_vars
  /\ [][ \A f \in Frames :
           (f.pc = "cleanupOnError" /\ Moved(f) /\ f.idx < Len(f.batch))
             => /\ CallFrom(f, f.batch, f.idx + 1) \in BagToSet(polls')
                /\ docs' = docs ]_vars

\* one poll took two documents; the first ended failed, and the second was
\* then claimed and completed by the same poll
C28_Witness ==
  /\ BagCardinality(polls) = 1
  /\ \E f \in Frames :
       /\ Len(f.batch) = 2
       /\ f.idx = 2
       /\ f.pc = "cleanup"
       /\ docs[f.batch[1].id].processing_status = "failed"
       /\ termWrites[f.batch[1].id] = 1
       /\ docs[f.batch[2].id].processing_status = "completed"
       /\ termWrites[f.batch[2].id] = 1

====
